---- MODULE Spec2Model ----
(***************************************************************************)
(* tbadapters: dump the state of the adapters of a Thunderbolt/USB4        *)
(* router (src/src/bin/tbadapters.rs).                                     *)
(*                                                                         *)
(* The model covers dump_adapters and everything it calls: the selection   *)
(* of the adapters to dump, the classification shown by dump_adapter_type, *)
(* the state resolution of dump_adapter_state / protocol_state and the     *)
(* text written to stdout.  The accessors of tbtools::debugfs::Adapter,    *)
(* Register and BitField are not part of this source file; they are        *)
(* modelled from the specification (its sections 3, 4.1 and 4.2).          *)
(***************************************************************************)
EXTENDS Integers, Sequences, FiniteSets, TLC

VARIABLES
    args,       \* the parsed command line: [script, terminal]
    device,     \* the adapter snapshot held by the Device
    pc,         \* position in dump_adapters
    requested,  \* the elements of args.adapter consumed so far
    out,        \* stdout: a sequence of lines, each a sequence of printed items
    err,        \* stderr: a sequence of warning lines
    resolved,   \* the (name, style) pairs bound at line 112, one per call
    lookups     \* the register / field lookups made, one entry per dump_adapter call

vars == <<args, device, pc, requested, out, err, resolved, lookups>>

(***************************************************************************)
(* Bounds of the model.                                                    *)
(***************************************************************************)
\* Longest list of -a/--adapter options that is explored.
MaxRequests == 2
\* Largest raw value a protocol field (LTSSM, PLS) takes in a snapshot; the
\* value-to-name tables below name the values 0..7, larger ones are unmapped.
MaxFieldValue == 8

(***************************************************************************)
(* ansi_term styles (lines 6-9).                                           *)
(***************************************************************************)
Style(colour, weight) == [colour |-> colour, weight |-> weight]
Green_normal  == Style("Green", "normal")
Green_bold    == Style("Green", "bold")
Red_normal    == Style("Red", "normal")
Yellow_normal == Style("Yellow", "normal")
White_dimmed  == Style("White", "dimmed")
White_bold    == Style("White", "bold")

(***************************************************************************)
(* Option<T>: None is the empty sequence, Some(x) the sequence <<x>>.      *)
(***************************************************************************)
None == << >>
Some(x) == <<x>>

(***************************************************************************)
(* tbtools::debugfs (outside this source file, modelled from the           *)
(* specification): the adapter descriptor and the register / field model.  *)
(***************************************************************************)
\* debugfs::Type, the adapter kinds
Types == {"Inactive", "Lane", "PcieDown", "PcieUp", "Usb3Down", "Usb3Up", "DisplayPortIn"}
\* the raw type codes an adapter carries besides its lane indicators
TypeCodes == Types \ {"Lane"}
\* debugfs::State, the coarse adapter states
States == {"Disabled", "Enabled", "Training", "Cl0", "Cl0sTx", "Cl0sRx",
           "Cl1", "Cl2", "Cld", "Unknown"}

\* The value-to-name mapping of a field; the value v is named by entry v + 1,
\* values past the end of the table have no name.  The tables are data of
\* the register model; these hold every name the matches list and names
\* the matches do not list, ending with no, one and two " state" suffixes.
ValueNames(field_name) ==
    IF field_name = "LTSSM"
    THEN << "Detect state", "L0 state", "L1 state", "L2 state", "Disabled state",
            "Hot Reset state", "Polling", "Recovery state state" >>
    ELSE << "U0 state", "U1 state", "U2 state", "U3 state", "Disabled state",
            "Hot Reset state", "RX.Detect", "Resume state state" >>

\* A register of the snapshot: its name and its field, if it has one.
Field(name, value) == [name |-> name, value |-> value]
Register(name, field) == [name |-> name, field |-> field]
RegisterSnapshots(name, field_name) ==
    {None, Some(Register(name, None))}
        \cup {Some(Register(name, Some(Field(field_name, v)))) : v \in 0..MaxFieldValue}

\* The protocol register the adapters of a type code carry in their own
\* configuration space.
OwnRegister(type_code) ==
    CASE type_code \in {"PcieDown", "PcieUp"} -> "ADP_PCIE_CS_0"
      [] type_code \in {"Usb3Down", "Usb3Up"} -> "ADP_USB3_GX_CS_4"
      [] OTHER -> "-"

\* The snapshots of register `name` for an adapter of a type code: every
\* snapshot for the adapter's own protocol register; for the register of
\* another protocol, absent or present with one named value (L2 / U3).
SnapshotsOf(type_code, name, field_name) ==
    IF OwnRegister(type_code) = name THEN RegisterSnapshots(name, field_name)
    ELSE {None, Some(Register(name, Some(Field(field_name, 3))))}

\* Every adapter descriptor a snapshot can hold.
Adapters ==
    UNION { [adapter : {1}, type_code : {t}, lane0 : BOOLEAN, lane1 : BOOLEAN,
             upstream : BOOLEAN, state : States,
             pcie : SnapshotsOf(t, "ADP_PCIE_CS_0", "LTSSM"),
             usb3 : SnapshotsOf(t, "ADP_USB3_GX_CS_4", "PLS")] : t \in TypeCodes }

\* Adapter::is_lane0 / is_lane1: the lane indicators
is_lane0(adapter) == adapter.lane0
is_lane1(adapter) == adapter.lane1
\* Adapter::kind: the lane indicators take precedence over the type code
kind(adapter) == IF adapter.lane0 \/ adapter.lane1 THEN "Lane" ELSE adapter.type_code
is_lane(adapter) == kind(adapter) = "Lane"
is_protocol(adapter) ==
    kind(adapter) \in {"PcieDown", "PcieUp", "Usb3Down", "Usb3Up", "DisplayPortIn"}
is_upstream(adapter) == adapter.upstream
state(adapter) == adapter.state
\* impl Display for Type
Type_to_string(t) ==
    CASE t = "Inactive" -> "Inactive"
      [] t = "Lane" -> "Lane"
      [] t = "PcieDown" -> "PCIe Down"
      [] t = "PcieUp" -> "PCIe Up"
      [] t = "Usb3Down" -> "USB 3 Down"
      [] t = "Usb3Up" -> "USB 3 Up"
      [] t = "DisplayPortIn" -> "DisplayPort IN"

\* Adapter::register_by_name -> Option<&Register>
register_by_name(adapter, name) ==
    CASE name = "ADP_PCIE_CS_0" -> adapter.pcie
      [] name = "ADP_USB3_GX_CS_4" -> adapter.usb3
      [] OTHER -> None
\* Register::field_by_name -> Option<&BitField>
field_by_name(reg, name) ==
    IF reg.field # None /\ reg.field[1].name = name THEN reg.field ELSE None
\* Register::field_value: the value extracted from the register
field_value(reg, field) == field.value
\* BitField::value_name -> Option<&str>
value_name(field, v) ==
    IF v + 1 \in DOMAIN ValueNames(field.name) THEN Some(ValueNames(field.name)[v + 1])
    ELSE None

(***************************************************************************)
(* Rust std: str::trim_end_matches and the {:<w} / {:>w} paddings.         *)
(***************************************************************************)
ends_with(s, pat) ==
    Len(s) >= Len(pat) /\ SubSeq(s, Len(s) - Len(pat) + 1, Len(s)) = pat

\* Variant of trim_end_matches: str::strip_suffix, which removes one suffix.
strip_suffix_once(s, pat) ==
    IF ends_with(s, pat) THEN SubSeq(s, 1, Len(s) - Len(pat)) ELSE s

RECURSIVE trim_end_matches(_, _)
trim_end_matches(s, pat) ==
    IF Len(pat) > 0 /\ ends_with(s, pat)
    THEN trim_end_matches(SubSeq(s, 1, Len(s) - Len(pat)), pat)
    ELSE s

RECURSIVE pad_right(_, _)
pad_right(s, w) == IF Len(s) >= w THEN s ELSE pad_right(s \o " ", w)

RECURSIVE pad_left(_, _)
pad_left(s, w) == IF Len(s) >= w THEN s ELSE pad_left(" " \o s, w)

\* One print!(): the text and the style it is painted with, if any.
Item(text, style) == [text |-> text, style |-> style]

(***************************************************************************)
(* src/src/bin/tbadapters.rs                                               *)
(***************************************************************************)
\* struct Args: the options the dump reads.  stdout being a terminal is an
\* input of the run as well (io::stdout().is_terminal()).
\* is_terminal() is consulted only when --script is off.
ArgsSet == {a \in [script : BOOLEAN, terminal : BOOLEAN] : a.script => ~a.terminal}
\* the adapter numbers given with -a/--adapter: the adapter of the snapshot
\* and one the router does not have
RequestNums == {1, 2}

\* to_string of an adapter number (1..63)
num_to_string(n) == ToString(n)

dump_adapter_num(adapter_num, a) ==
    IF a.script THEN Item(num_to_string(adapter_num) \o ",", None)
    ELSE IF a.terminal
    THEN Item(pad_left(num_to_string(adapter_num), 2) \o ": ", Some(White_bold))
    ELSE Item(pad_left(num_to_string(adapter_num), 2) \o ": ", None)

\* Variant of adapter_type_name: the lane-1 indicator is tested first.
adapter_type_name_lane1_first(adapter) ==
    LET k == IF is_lane1(adapter) THEN "Lane 1"
             ELSE IF is_lane0(adapter) THEN "Lane 0"
             ELSE Type_to_string(kind(adapter))
    IN  IF is_upstream(adapter) THEN k \o " (upstream)" ELSE k

\* lines 50-60: the kind shown for the adapter
adapter_type_name(adapter) ==
    LET k == IF is_lane0(adapter) THEN "Lane 0"
             ELSE IF is_lane1(adapter) THEN "Lane 1"
             ELSE Type_to_string(kind(adapter))
    IN  IF is_upstream(adapter) THEN k \o " (upstream)" ELSE k

dump_adapter_type(adapter, a) ==
    IF a.script THEN Item(adapter_type_name(adapter) \o ",", None)
    ELSE Item(pad_right(adapter_type_name(adapter), 30), None)

\* Variant of pcie_match: L1 is styled as L0 is.
pcie_match_l1_normal(name) ==
    CASE name = Some("L0 state") -> Some(<<"L0", Green_normal>>)
      [] name = Some("L1 state") -> Some(<<"L1", Green_normal>>)
      [] name = Some("L2 state") -> Some(<<"L2", Green_bold>>)
      [] name = Some("Disabled state") -> Some(<<"Disabled", Red_normal>>)
      [] name = Some("Hot Reset state") -> Some(<<"Hot Reset", Red_normal>>)
      [] name # None /\ name \notin {Some("L0 state"), Some("L1 state"), Some("L2 state"),
                                     Some("Disabled state"), Some("Hot Reset state")}
            -> Some(<<trim_end_matches(name[1], " state"), Yellow_normal>>)
      [] name = None -> None

\* Variant of pcie_match: a value without a name is shown as an empty,
\* Transitional name instead of falling through.
pcie_match_unmapped_shown(name) ==
    CASE name = Some("L0 state") -> Some(<<"L0", Green_normal>>)
      [] name = Some("L1 state") -> Some(<<"L1", Green_bold>>)
      [] name = Some("L2 state") -> Some(<<"L2", Green_bold>>)
      [] name = Some("Disabled state") -> Some(<<"Disabled", Red_normal>>)
      [] name = Some("Hot Reset state") -> Some(<<"Hot Reset", Red_normal>>)
      [] name # None /\ name \notin {Some("L0 state"), Some("L1 state"), Some("L2 state"),
                                     Some("Disabled state"), Some("Hot Reset state")}
            -> Some(<<trim_end_matches(name[1], " state"), Yellow_normal>>)
      [] name = None -> Some(<<"", Yellow_normal>>)

\* lines 75-83: the match on the name of the LTSSM value.  None stands for
\* falling out of the match without returning.
pcie_match(name) ==
    CASE name = Some("L0 state") -> Some(<<"L0", Green_normal>>)
      [] name = Some("L1 state") -> Some(<<"L1", Green_bold>>)
      [] name = Some("L2 state") -> Some(<<"L2", Green_bold>>)
      [] name = Some("Disabled state") -> Some(<<"Disabled", Red_normal>>)
      [] name = Some("Hot Reset state") -> Some(<<"Hot Reset", Red_normal>>)
      [] name # None /\ name \notin {Some("L0 state"), Some("L1 state"), Some("L2 state"),
                                     Some("Disabled state"), Some("Hot Reset state")}
            -> Some(<<trim_end_matches(name[1], " state"), Yellow_normal>>)
      [] name = None -> None

\* Variant of usb3_match: the U3 arm is missing, U3 falls to the catch-all.
usb3_match_without_u3(name) ==
    CASE name = Some("U0 state") -> Some(<<"U0", Green_normal>>)
      [] name = Some("U2 state") -> Some(<<"U2", Green_bold>>)
      [] name = Some("Disabled state") -> Some(<<"Disabled", Red_normal>>)
      [] name = Some("Hot Reset state") -> Some(<<"Hot Reset", Red_normal>>)
      [] name # None /\ name \notin {Some("U0 state"), Some("U2 state"),
                                     Some("Disabled state"), Some("Hot Reset state")}
            -> Some(<<trim_end_matches(name[1], " state"), Yellow_normal>>)
      [] name = None -> None

\* lines 92-100: the match on the name of the PLS value
usb3_match(name) ==
    CASE name = Some("U0 state") -> Some(<<"U0", Green_normal>>)
      [] name = Some("U2 state") -> Some(<<"U2", Green_bold>>)
      [] name = Some("U3 state") -> Some(<<"U3", Green_bold>>)
      [] name = Some("Disabled state") -> Some(<<"Disabled", Red_normal>>)
      [] name = Some("Hot Reset state") -> Some(<<"Hot Reset", Red_normal>>)
      [] name # None /\ name \notin {Some("U0 state"), Some("U2 state"), Some("U3 state"),
                                     Some("Disabled state"), Some("Hot Reset state")}
            -> Some(<<trim_end_matches(name[1], " state"), Yellow_normal>>)
      [] name = None -> None

\* The result of a resolution step: the (name, style) pair it returns and the
\* lookups it made on the way, in order.
Resolution(ret, looked) == [ret |-> ret, lookups |-> looked]

\* The match the refinement of a field applies: lines 75-83 for LTSSM,
\* lines 92-100 for PLS.
field_match(field_name, name) ==
    IF field_name = "LTSSM" THEN pcie_match(name) ELSE usb3_match(name)

\* lines 72-85 and 89-102: the refinement from one register and one field.
\* Falling through every `if let` reaches line 108.
refine(adapter, reg_name, field_name) ==
    LET reg == register_by_name(adapter, reg_name)
        l1  == << <<"register_by_name", reg_name>> >>
    IN  IF reg = None THEN Resolution(<<"Enabled", Green_normal>>, l1)
        ELSE LET field == field_by_name(reg[1], field_name)
                 l2    == Append(l1, <<"field_by_name", field_name>>)
             IN  IF field = None THEN Resolution(<<"Enabled", Green_normal>>, l2)
                 ELSE LET v  == field_value(reg[1], field[1])
                          m  == field_match(field_name, value_name(field[1], v))
                          l3 == l2 \o << <<"field_value", field_name>>,
                                         <<"value_name", field_name>> >>
                      IN  IF m # None THEN Resolution(m[1], l3)
                          ELSE Resolution(<<"Enabled", Green_normal>>, l3)

\* Variant of protocol_state: a missing register or field is reported as
\* Unknown instead of falling back to Enabled.
protocol_state_absent_unknown(adapter) ==
    LET r == CASE kind(adapter) \in {"PcieDown", "PcieUp"} ->
                    refine(adapter, "ADP_PCIE_CS_0", "LTSSM")
              [] kind(adapter) \in {"Usb3Down", "Usb3Up"} ->
                    refine(adapter, "ADP_USB3_GX_CS_4", "PLS")
              [] OTHER -> Resolution(<<"Enabled", Green_normal>>, << >>)
    IN  IF r.lookups # << >> /\ Len(r.lookups) < 4
        THEN Resolution(<<"Unknown", White_dimmed>>, r.lookups)
        ELSE r

protocol_state(adapter) ==
    CASE kind(adapter) \in {"PcieDown", "PcieUp"} ->
            refine(adapter, "ADP_PCIE_CS_0", "LTSSM")
      [] kind(adapter) \in {"Usb3Down", "Usb3Up"} ->
            refine(adapter, "ADP_USB3_GX_CS_4", "PLS")
      [] OTHER -> Resolution(<<"Enabled", Green_normal>>, << >>)

\* Variant of adapter_state: a Disabled adapter is refined from its
\* protocol register like an Enabled one.
adapter_state_disabled_refined(adapter) ==
    CASE state(adapter) \in {"Disabled", "Enabled"} -> protocol_state(adapter)
      [] state(adapter) = "Training" ->
            Resolution(<<"Training/Bonding", Yellow_normal>>, << >>)
      [] state(adapter) = "Cl0" -> Resolution(<<"CL0", Green_normal>>, << >>)
      [] state(adapter) = "Cl0sTx" -> Resolution(<<"CL0s Tx", Green_bold>>, << >>)
      [] state(adapter) = "Cl0sRx" -> Resolution(<<"CL0s Rx", Green_bold>>, << >>)
      [] state(adapter) = "Cl1" -> Resolution(<<"CL1", Green_bold>>, << >>)
      [] state(adapter) = "Cl2" -> Resolution(<<"CL2", Green_bold>>, << >>)
      [] state(adapter) = "Cld" -> Resolution(<<"CLd", Red_normal>>, << >>)
      [] OTHER -> Resolution(<<"Unknown", White_dimmed>>, << >>)

\* Variant of adapter_state: CL1 is styled as CL0 is.
adapter_state_cl1_normal(adapter) ==
    CASE state(adapter) = "Disabled" -> Resolution(<<"Disabled", Red_normal>>, << >>)
      [] state(adapter) = "Enabled" -> protocol_state(adapter)
      [] state(adapter) = "Training" ->
            Resolution(<<"Training/Bonding", Yellow_normal>>, << >>)
      [] state(adapter) = "Cl0" -> Resolution(<<"CL0", Green_normal>>, << >>)
      [] state(adapter) = "Cl0sTx" -> Resolution(<<"CL0s Tx", Green_bold>>, << >>)
      [] state(adapter) = "Cl0sRx" -> Resolution(<<"CL0s Rx", Green_bold>>, << >>)
      [] state(adapter) = "Cl1" -> Resolution(<<"CL1", Green_normal>>, << >>)
      [] state(adapter) = "Cl2" -> Resolution(<<"CL2", Green_bold>>, << >>)
      [] state(adapter) = "Cld" -> Resolution(<<"CLd", Red_normal>>, << >>)
      [] OTHER -> Resolution(<<"Unknown", White_dimmed>>, << >>)

\* lines 112-123: the match on the coarse state
adapter_state(adapter) ==
    CASE state(adapter) = "Disabled" -> Resolution(<<"Disabled", Red_normal>>, << >>)
      [] state(adapter) = "Enabled" -> protocol_state(adapter)
      [] state(adapter) = "Training" ->
            Resolution(<<"Training/Bonding", Yellow_normal>>, << >>)
      [] state(adapter) = "Cl0" -> Resolution(<<"CL0", Green_normal>>, << >>)
      [] state(adapter) = "Cl0sTx" -> Resolution(<<"CL0s Tx", Green_bold>>, << >>)
      [] state(adapter) = "Cl0sRx" -> Resolution(<<"CL0s Rx", Green_bold>>, << >>)
      [] state(adapter) = "Cl1" -> Resolution(<<"CL1", Green_bold>>, << >>)
      [] state(adapter) = "Cl2" -> Resolution(<<"CL2", Green_bold>>, << >>)
      [] state(adapter) = "Cld" -> Resolution(<<"CLd", Red_normal>>, << >>)
      [] OTHER -> Resolution(<<"Unknown", White_dimmed>>, << >>)

\* lines 125-131: the state as printed
dump_adapter_state(adapter, a) ==
    LET name  == adapter_state(adapter).ret[1]
        style == adapter_state(adapter).ret[2]
    IN  IF a.script THEN Item(name, None)
        ELSE IF a.terminal THEN Item(pad_right(name, 10), Some(style))
        ELSE Item(pad_right(name, 10), None)

dump_other(a) ==
    IF a.script THEN <<Item("Not implemented", None), Item(",", None)>>
    ELSE <<Item("Not implemented", None)>>

\* dump_adapter: the line printed for the adapter, the pair its state
\* resolved to (None when the resolver did not run) and the lookups made.
Dumped(line, res, looked) == [line |-> line, resolved |-> res, lookups |-> looked]

\* Variant of dump_adapter: every adapter is decoded, whatever its kind.
dump_adapter_decodes_all(adapter, a) ==
    Dumped(<<dump_adapter_num(adapter.adapter, a), dump_adapter_type(adapter, a),
             dump_adapter_state(adapter, a)>>,
           Some(adapter_state(adapter).ret), adapter_state(adapter).lookups)

dump_adapter(adapter, a) ==
    IF is_lane(adapter) \/ is_protocol(adapter)
    THEN Dumped(<<dump_adapter_num(adapter.adapter, a), dump_adapter_type(adapter, a),
                  dump_adapter_state(adapter, a)>>,
                Some(adapter_state(adapter).ret), adapter_state(adapter).lookups)
    ELSE Dumped(<<dump_adapter_num(adapter.adapter, a)>> \o dump_other(a), None, << >>)

\* print_header: the lines it prints
print_header(a) ==
    IF a.script THEN << <<Item("adapter,type,state", None)>> >> ELSE << >>

\* Device::adapter(num) -> Option<&Adapter>
device_adapter(num) == IF device.adapter = num THEN Some(device) ELSE None

(***************************************************************************)
(* dump_adapters, after device.read_adapters() succeeded.                  *)
(***************************************************************************)
Init ==
    /\ args \in ArgsSet
    /\ device \in Adapters
    /\ pc = "start"
    /\ requested = << >>
    /\ out = << >>
    /\ err = << >>
    /\ resolved = << >>
    /\ lookups = << >>

\* lines 164-165 and 173-174: the branch on args.adapter and the header
Begin ==
    /\ pc = "start"
    /\ \E selected \in BOOLEAN : pc' = IF selected THEN "selected" ELSE "all"
    /\ out' = out \o print_header(args)
    /\ UNCHANGED <<args, device, requested, err, resolved, lookups>>

\* Variant of Dump: reading the protocol registers clears them.
Dump_clearing_registers(adapter) ==
    /\ out' = Append(out, dump_adapter(adapter, args).line)
    /\ resolved' = Append(resolved, dump_adapter(adapter, args).resolved)
    /\ lookups' = Append(lookups, dump_adapter(adapter, args).lookups)
    /\ device' = [device EXCEPT !.pcie = None, !.usb3 = None]
    /\ UNCHANGED <<args, err>>

\* dump_adapter(adapter, args) as one step of a loop
Dump(adapter) ==
    /\ out' = Append(out, dump_adapter(adapter, args).line)
    /\ resolved' = Append(resolved, dump_adapter(adapter, args).resolved)
    /\ lookups' = Append(lookups, dump_adapter(adapter, args).lookups)
    /\ UNCHANGED <<args, device, err>>

\* lines 166-172: one iteration over args.adapter
DumpSelected ==
    /\ pc = "selected"
    /\ Len(requested) < MaxRequests
    /\ \E adapter_num \in RequestNums :
        /\ requested' = Append(requested, adapter_num)
        /\ IF device_adapter(adapter_num) # None
           THEN Dump(device_adapter(adapter_num)[1])
           ELSE /\ err' = Append(err, "Warning: non-existing adapter: "
                                        \o num_to_string(adapter_num) \o "!")
                /\ UNCHANGED <<args, device, out, resolved, lookups>>
    /\ UNCHANGED pc

\* lines 175-177: the loop over every adapter of the device
DumpAll ==
    /\ pc = "all"
    /\ Dump(device)
    /\ pc' = "done"
    /\ UNCHANGED requested

Next == Begin \/ DumpSelected \/ DumpAll

Spec == Init /\ [][Next]_vars

(***************************************************************************)
(* Vocabulary of the properties.                                           *)
(***************************************************************************)
\* The emphasis classes and the styles that render them.
Nominal       == Green_normal
NominalStrong == Green_bold
Transitional  == Yellow_normal
Degraded      == Red_normal
Unrecognized  == White_dimmed

IsPcie(adapter) == kind(adapter) \in {"PcieDown", "PcieUp"}
IsUsb3(adapter) == kind(adapter) \in {"Usb3Down", "Usb3Up"}

\* The protocol register of a PCIe / USB3 adapter, its field and the name
\* of the field's value, each as an Option.
ProtocolRegister(adapter) ==
    register_by_name(adapter, IF IsPcie(adapter) THEN "ADP_PCIE_CS_0" ELSE "ADP_USB3_GX_CS_4")
ProtocolField(adapter) ==
    IF ProtocolRegister(adapter) = None THEN None
    ELSE field_by_name(ProtocolRegister(adapter)[1], IF IsPcie(adapter) THEN "LTSSM" ELSE "PLS")
ProtocolValueName(adapter) ==
    IF ProtocolField(adapter) = None THEN None
    ELSE value_name(ProtocolField(adapter)[1], ProtocolField(adapter)[1].value)

\* The calls of dump_adapter made so far, and those that ran the resolver.
Calls == DOMAIN resolved
Resolutions == {i \in Calls : resolved[i] # None}
\* The line dump_adapter call i printed (the header line comes first).
LineOf(i) == out[i + Len(print_header(args))]
\* A type or placeholder column as dump_adapter_type prints it.
TypeColumn(text) == IF args.script THEN text \o "," ELSE pad_right(text, 30)

(***************************************************************************)
(* C1.  An adapter whose coarse state is Disabled resolves to              *)
(* ("Disabled", Degraded) whatever its kind and its registers hold, and    *)
(* the resolution makes no register or field lookup.                       *)
(***************************************************************************)
C1_DisabledIsTerminal ==
    \A i \in Resolutions :
        state(device) = "Disabled" =>
            /\ resolved[i] = Some(<<"Disabled", Degraded>>)
            /\ lookups[i] = << >>

C1_Witness ==
    /\ state(device) = "Disabled"
    /\ IsPcie(device)
    /\ ProtocolValueName(device) = Some("L0 state")
    /\ Resolutions # {}

(***************************************************************************)
(* C2.  For an Enabled PCIe adapter (LTSSM) or USB3 adapter (PLS) whose    *)
(* field value has a name, both protocols follow one policy: "L0 state" /  *)
(* "U0 state" give ("L0" / "U0", Nominal); "L1 state", "L2 state" /        *)
(* "U2 state", "U3 state" give the short token with NominalStrong;         *)
(* "Disabled state" gives ("Disabled", Degraded) and "Hot Reset state"     *)
(* gives ("Hot Reset", Degraded).                                          *)
(***************************************************************************)
C2_Policy(adapter, name) ==
    CASE IsPcie(adapter) /\ name = "L0 state" -> Some(<<"L0", Nominal>>)
      [] IsPcie(adapter) /\ name = "L1 state" -> Some(<<"L1", NominalStrong>>)
      [] IsPcie(adapter) /\ name = "L2 state" -> Some(<<"L2", NominalStrong>>)
      [] IsUsb3(adapter) /\ name = "U0 state" -> Some(<<"U0", Nominal>>)
      [] IsUsb3(adapter) /\ name = "U2 state" -> Some(<<"U2", NominalStrong>>)
      [] IsUsb3(adapter) /\ name = "U3 state" -> Some(<<"U3", NominalStrong>>)
      [] name = "Disabled state" -> Some(<<"Disabled", Degraded>>)
      [] name = "Hot Reset state" -> Some(<<"Hot Reset", Degraded>>)
      [] OTHER -> None

C2_SharedEmphasisPolicy ==
    \A i \in Resolutions :
        (/\ state(device) = "Enabled"
         /\ IsPcie(device) \/ IsUsb3(device)
         /\ ProtocolValueName(device) # None
         /\ C2_Policy(device, ProtocolValueName(device)[1]) # None)
        => resolved[i] = C2_Policy(device, ProtocolValueName(device)[1])

C2_Witness ==
    /\ state(device) = "Enabled"
    /\ device.type_code = "PcieDown" /\ IsPcie(device)
    /\ ProtocolValueName(device) = Some("Hot Reset state")
    /\ Resolutions # {}
    /\ \A i \in Resolutions : resolved[i] = Some(<<"Hot Reset", Degraded>>)

(***************************************************************************)
(* C3.  As stated: a USB3 adapter whose PLS field of ADP_USB3_GX_CS_4      *)
(* resolves to "U3 state" resolves to ("U3", NominalStrong) whatever its   *)
(* coarse state is.                                                        *)
(***************************************************************************)
C3_AsStated ==
    \A i \in Resolutions :
        (IsUsb3(device) /\ ProtocolValueName(device) = Some("U3 state"))
        => resolved[i] = Some(<<"U3", NominalStrong>>)

(***************************************************************************)
(* C3, amended.  A USB3 adapter (upstream or downstream) whose coarse      *)
(* state is Enabled and whose PLS field resolves to "U3 state" resolves    *)
(* to ("U3", NominalStrong).                                               *)
(***************************************************************************)
C3_EnabledUsb3U3 ==
    \A i \in Resolutions :
        (/\ state(device) = "Enabled"
         /\ IsUsb3(device)
         /\ ProtocolValueName(device) = Some("U3 state"))
        => resolved[i] = Some(<<"U3", NominalStrong>>)

C3_Witness ==
    /\ state(device) = "Enabled"
    /\ device.type_code = "Usb3Up" /\ IsUsb3(device)
    /\ ProtocolValueName(device) = Some("U3 state")
    /\ Resolutions # {}

(***************************************************************************)
(* C4.  For an Enabled PCIe or USB3 adapter whose protocol register is     *)
(* absent, or present without its LTSSM / PLS field, the resolution does   *)
(* not fail and returns exactly ("Enabled", Nominal).                      *)
(***************************************************************************)
C4_AbsentFallsBack ==
    \A i \in Calls :
        (/\ state(device) = "Enabled"
         /\ IsPcie(device) \/ IsUsb3(device)
         /\ ProtocolField(device) = None)
        => resolved[i] = Some(<<"Enabled", Nominal>>)

C4_Witness ==
    /\ state(device) = "Enabled"
    /\ \/ IsUsb3(device) /\ ProtocolRegister(device) = None
       \/ IsPcie(device) /\ ProtocolRegister(device) # None /\ ProtocolField(device) = None
    /\ Resolutions # {}

(***************************************************************************)
(* C5.  As stated: for an Enabled PCIe or USB3 adapter whose protocol      *)
(* field holds a value without a symbolic name, the resolver surfaces the  *)
(* raw numeric token, classified Transitional; the value is not dropped.   *)
(***************************************************************************)
C5_Unmapped(adapter) ==
    /\ state(adapter) = "Enabled"
    /\ IsPcie(adapter) \/ IsUsb3(adapter)
    /\ ProtocolField(adapter) # None
    /\ ProtocolValueName(adapter) = None

C5_AsStated ==
    \A i \in Resolutions :
        C5_Unmapped(device) =>
            resolved[i] = Some(<<ToString(ProtocolField(device)[1].value), Transitional>>)

(***************************************************************************)
(* C5, amended.  For an Enabled PCIe or USB3 adapter whose protocol field  *)
(* holds a value without a symbolic name, the resolver falls back to       *)
(* ("Enabled", Nominal); the raw value is not shown.                       *)
(***************************************************************************)
C5_UnmappedFallsBack ==
    \A i \in Resolutions :
        C5_Unmapped(device) => resolved[i] = Some(<<"Enabled", Nominal>>)

C5_Witness ==
    /\ C5_Unmapped(device)
    /\ IsPcie(device)
    /\ Resolutions # {}

(***************************************************************************)
(* C6.  As stated: for a coarse state among CL0, CL0sTx, CL0sRx, CL1, CL2  *)
(* the resolved name is the literal name of that state, with Nominal for   *)
(* CL0 and NominalStrong for the four others, whatever the adapter kind    *)
(* and the registers.                                                      *)
(***************************************************************************)
C6_ClStates == {"Cl0", "Cl0sTx", "Cl0sRx", "Cl1", "Cl2"}
C6_Emphasis(st) == IF st = "Cl0" THEN Nominal ELSE NominalStrong
\* the names of the CL-power states as the claim writes them
C6_LiteralName(st) ==
    CASE st = "Cl0" -> "CL0"
      [] st = "Cl0sTx" -> "CL0sTx"
      [] st = "Cl0sRx" -> "CL0sRx"
      [] st = "Cl1" -> "CL1"
      [] st = "Cl2" -> "CL2"

C6_AsStated ==
    \A i \in Resolutions :
        state(device) \in C6_ClStates =>
            resolved[i] = Some(<<C6_LiteralName(state(device)), C6_Emphasis(state(device))>>)

(***************************************************************************)
(* C6, amended.  For a coarse state among CL0, CL0sTx, CL0sRx, CL1, CL2    *)
(* the resolved name is "CL0", "CL0s Tx", "CL0s Rx", "CL1", "CL2"          *)
(* respectively (the two CL0s names are written with a space), with        *)
(* Nominal for CL0 and NominalStrong for the four others, whatever the     *)
(* adapter kind and the registers; no register is looked up.               *)
(***************************************************************************)
C6_ShownName(st) ==
    CASE st = "Cl0" -> "CL0"
      [] st = "Cl0sTx" -> "CL0s Tx"
      [] st = "Cl0sRx" -> "CL0s Rx"
      [] st = "Cl1" -> "CL1"
      [] st = "Cl2" -> "CL2"

C6_ClPowerStates ==
    \A i \in Resolutions :
        state(device) \in C6_ClStates =>
            /\ resolved[i] = Some(<<C6_ShownName(state(device)), C6_Emphasis(state(device))>>)
            /\ lookups[i] = << >>

C6_Witness ==
    /\ state(device) = "Cl0sTx"
    /\ IsUsb3(device)
    /\ ProtocolValueName(device) = Some("U0 state")
    /\ \E i \in Resolutions : resolved[i] = Some(<<"CL0s Tx", NominalStrong>>)

(***************************************************************************)
(* C7.  An adapter with the lane-0 indicator set is reported as Lane 0,    *)
(* also when the lane-1 indicator is set too (lane 0 is tested first) and  *)
(* when it carries a protocol type code; in that last case the state       *)
(* resolution treats it as a lane adapter: it looks up no protocol         *)
(* register and an Enabled one resolves to ("Enabled", Nominal).           *)
(***************************************************************************)
C7_ProtocolCodes == {"PcieDown", "PcieUp", "Usb3Down", "Usb3Up", "DisplayPortIn"}

C7_LanePrecedence ==
    \A i \in Calls :
        is_lane0(device) =>
            /\ LineOf(i)[2].text =
                   TypeColumn(IF is_upstream(device) THEN "Lane 0 (upstream)" ELSE "Lane 0")
            /\ device.type_code \in C7_ProtocolCodes =>
                   /\ resolved[i] # None
                   /\ lookups[i] = << >>
                   /\ state(device) = "Enabled" => resolved[i] = Some(<<"Enabled", Nominal>>)

C7_Witness ==
    /\ is_lane0(device) /\ is_lane1(device)
    /\ device.type_code = "PcieDown"
    /\ state(device) = "Enabled"
    /\ device.pcie = Some(Register("ADP_PCIE_CS_0", Some(Field("LTSSM", 1))))
    /\ Calls # {}

(***************************************************************************)
(* C8.  For an adapter that is neither a lane nor a protocol adapter the   *)
(* dump prints the placeholder "Not implemented" in place of a type and a  *)
(* state, does not run the state resolver and looks up no register; and    *)
(* no name the resolver returns equals the placeholder.                    *)
(***************************************************************************)
C8_NotDecoded ==
    /\ \A i \in Calls :
        ~(is_lane(device) \/ is_protocol(device)) =>
            /\ Len(LineOf(i)) = IF args.script THEN 3 ELSE 2
            /\ LineOf(i)[1] = dump_adapter_num(device.adapter, args)
            /\ LineOf(i)[2] = Item("Not implemented", None)
            /\ args.script => LineOf(i)[3] = Item(",", None)
            /\ resolved[i] = None
            /\ lookups[i] = << >>
    /\ \A i \in Resolutions : resolved[i][1][1] # "Not implemented"

C8_Witness ==
    /\ device.type_code = "Inactive"
    /\ ~is_lane(device)
    /\ Calls # {}
    /\ Resolutions = {}

RECURSIVE C10_Suffixes(_)
C10_Suffixes(k) == IF k = 0 THEN "" ELSE C10_Suffixes(k - 1) \o " state"

\* r is n without the " state" suffixes at its end
C10_Stripped(n, r) ==
    /\ Len(r) <= Len(n)
    /\ n = r \o C10_Suffixes((Len(n) - Len(r)) \div Len(" state"))
    /\ ~ends_with(r, " state")
    /\ ~ends_with(n, " state") => r = n

C10_Other(adapter) ==
    /\ state(adapter) = "Enabled"
    /\ IsPcie(adapter) \/ IsUsb3(adapter)
    /\ ProtocolValueName(adapter) # None
    /\ C2_Policy(adapter, ProtocolValueName(adapter)[1]) = None

C10_OtherNamesTrimmed ==
    \A i \in Resolutions :
        C10_Other(device) =>
            /\ resolved[i][1][2] = Transitional
            /\ C10_Stripped(ProtocolValueName(device)[1], resolved[i][1][1])

C10_Witness ==
    /\ C10_Other(device)
    /\ ProtocolValueName(device) = Some("Resume state state")
    /\ \E i \in Resolutions : resolved[i] = Some(<<"Resume", Transitional>>)
====
